---- MODULE Spec2Model ----
(***************************************************************************)
(* Model of analyze_traffic_comprehensive (tracking4.py): the per-run     *)
(* accumulators, the frame loop body as one atomic step per frame, and the *)
(* summary built when the stream ends.                                     *)
(*                                                                         *)
(* Real-valued quantities (metres, km/h, the calibration factor and the    *)
(* thresholds) are fixed-point integers in thousandths.  A                 *)
(* product with a square root is the floor of the exact value, so a        *)
(* comparison with a threshold that is a whole number of thousandths is    *)
(* exact; binary floating-point noise below 1/1000 is not modelled.        *)
(***************************************************************************)
EXTENDS Integers, Sequences, FiniteSets, TLC

VARIABLES
    pixel_to_meter,           \* parameter, thousandths of a metre per pixel
    tailgating_thresh,        \* parameter, thousandths of a metre
    braking_thresh,           \* parameter, thousandths of a km/h
    line_y_red,               \* parameter, pixels
    line_y_blue,              \* parameter, pixels
    fps,                      \* cap.get(CAP_PROP_FPS), frames per second
    prev_positions,           \* dict  track_id -> <<cx, cy>>
    prev_speeds,              \* dict  track_id -> speed_kmh
    vehicles_seen,            \* dict  track_id -> class_name
    braking_flagged,          \* set of track_id
    tailgating_flagged,       \* set of sorted pairs <<a, b>>
    platoon_speeds,           \* list of mean speeds
    counted_ids_red_to_blue,  \* set of track_id
    counted_ids_blue_to_red,  \* set of track_id
    count_red_to_blue,        \* defaultdict(int)  class_name -> count
    count_blue_to_red,        \* defaultdict(int)  class_name -> count
    crossed_red_first,        \* dict  track_id -> TRUE
    crossed_blue_first,       \* dict  track_id -> TRUE
    distance_records,         \* list of distance records
    frame_data,               \* list of [frame, objects]
    frame_no,                 \* frames read so far
    summary,                  \* the returned report, NoSummary until built
    pc,                       \* "loop" inside the while loop, "done" after
                              \* return, "raised" after an exception
    cap,                      \* the video capture: "open", "ended" or "failed"
    other_run,                \* the per-run state of a second invocation
    response                  \* the response of analyze_intersection1 of
                              \* dem.py, NoResponse until built

vars == <<pixel_to_meter, tailgating_thresh, braking_thresh, line_y_red,
          line_y_blue, fps, prev_positions, prev_speeds, vehicles_seen,
          braking_flagged, tailgating_flagged, platoon_speeds,
          counted_ids_red_to_blue, counted_ids_blue_to_red, count_red_to_blue,
          count_blue_to_red, crossed_red_first, crossed_blue_first,
          distance_records, frame_data, frame_no, summary, pc, cap,
          other_run, response>>

config == <<pixel_to_meter, tailgating_thresh, braking_thresh, line_y_red,
            line_y_blue, fps>>

-----------------------------------------------------------------------------
(* Bounds of the model *)

\* frames read in a run of the multi-entity specification
MaxFrames == 2
\* frames read in a run of the crossing specification
MaxFramesTrack == 3
\* frames read in a run of the braking specification
MaxFramesBrake == 4
\* frames read in a run of the configuration specification
MaxFramesCfg == 2
\* frames read in a run of the failure specification
MaxFramesErr == 2
\* frames read by each of the two runs of the intersection specification
MaxFramesTwo == 2
\* frames read in a run of the report specification
MaxFramesReport == 3
\* frames read in a run of the speed specification
MaxFramesSpeed == 3
\* frames read in a run of the near-lines specification
MaxFramesNear == 3
\* frames read in a run of the proximity specification
MaxFramesClose == 2

-----------------------------------------------------------------------------
(* Program constants *)

\* default pixel_to_meter = 0.05
DefaultPixelToMeter == 50
\* default tailgating_thresh = 10
DefaultTailgatingThresh == 10000
\* default braking_thresh = 8
DefaultBrakingThresh == 8000
\* default line_y_red = 350
DefaultLineYRed == 350
\* default line_y_blue = 400
DefaultLineYBlue == 400
\* half-width of the band that registers a line touch
TouchTol == 3
\* half-width of the band that confirms a directed crossing
CountTol == 5
\* least number of visible entities that makes a platoon sample
PlatoonMin == 3
\* km/h per m/s, in tenths (3.6)
KmhPerMpsTenths == 36
\* default lanes = 2 of the endpoints of dem.py
DefaultLanes == 2

NoSummary == "none"

\* the response of analyze_intersection1 before it is built
NoResponse == [x \in {} |-> 0]

-----------------------------------------------------------------------------
(* Helpers: dictionaries, sums, arithmetic *)

\* Put that keeps the value of a key the dict already holds (setdefault)
PutIfAbsent(d, k, v) ==
    [x \in (DOMAIN d) \cup {k} |-> IF x \in DOMAIN d THEN d[x] ELSE v]

\* d[k] = v on a Python dict
Put(d, k, v) == [x \in (DOMAIN d) \cup {k} |-> IF x = k THEN v ELSE d[x]]

\* d[k] += 1 on a defaultdict(int)
Incr(d, k) == Put(d, k, (IF k \in DOMAIN d THEN d[k] ELSE 0) + 1)

EmptyDict == [x \in {} |-> 0]

RECURSIVE SumSeq(_)
SumSeq(s) == IF s = <<>> THEN 0 ELSE Head(s) + SumSeq(Tail(s))

RECURSIVE SumValues(_)
\* sum(d.values())
SumValues(d) ==
    IF DOMAIN d = {} THEN 0
    ELSE LET k == CHOOSE x \in DOMAIN d : TRUE
         IN d[k] + SumValues([x \in (DOMAIN d) \ {k} |-> d[x]])

RECURSIVE ISqrt(_)
\* floor of the square root of a natural number
ISqrt(n) ==
    IF n < 2 THEN n
    ELSE LET s == 2 * ISqrt(n \div 4)
         IN IF (s + 1) * (s + 1) <= n THEN s + 1 ELSE s

\* math.sqrt(dx**2 + dy**2) * k in thousandths, truncated toward zero
ScaledDist(dx, dy, k) ==
    LET r == ISqrt((dx * dx + dy * dy) * k * k)
    IN IF k >= 0 THEN r ELSE 0 - r

\* round(x, 2) of a value in thousandths
Round2(x) == ((x + 5) \div 10) * 10

Min2(a, b) == IF a <= b THEN a ELSE b
Max2(a, b) == IF a <= b THEN b ELSE a

-----------------------------------------------------------------------------
(* Per-observation step: lines 105-176 *)

\* integer midpoint of the bounding box <<x1, y1, x2, y2>>
Center(box) == <<(box[1] + box[3]) \div 2, (box[2] + box[4]) \div 2>>

\* SpeedKmh with the first sighting measured from the image origin
SpeedKmhFromOrigin(positions, track_id, c) ==
    LET p == IF track_id \in DOMAIN positions THEN positions[track_id]
             ELSE <<0, 0>>
        dist_m == ScaledDist(c[1] - p[1], c[2] - p[2], pixel_to_meter)
        speed_mps == dist_m * fps
    IN (speed_mps * KmhPerMpsTenths) \div 10

\* SpeedKmh without the frame rate: the distance per frame taken as metres
\* per second
SpeedKmhPerFrame(positions, track_id, c) ==
    IF track_id \in DOMAIN positions
    THEN LET p == positions[track_id]
             dist_m == ScaledDist(c[1] - p[1], c[2] - p[2], pixel_to_meter)
         IN (dist_m * KmhPerMpsTenths) \div 10
    ELSE 0

\* speed in km/h from the previous center, or 0.0 on the first sighting
SpeedKmh(positions, track_id, c) ==
    IF track_id \in DOMAIN positions
    THEN LET p == positions[track_id]
             dist_m == ScaledDist(c[1] - p[1], c[2] - p[2], pixel_to_meter)
             speed_mps == dist_m * fps
         IN (speed_mps * KmhPerMpsTenths) \div 10
    ELSE 0

\* BrakingDetected without the test that the entity is not yet flagged
BrakingDetectedRepeats(speeds, flagged, track_id, speed_kmh) ==
    /\ track_id \in DOMAIN speeds
    /\ speeds[track_id] - speed_kmh > braking_thresh

\* BrakingDetected that also takes a drop equal to the threshold
BrakingDetectedAtThreshold(speeds, flagged, track_id, speed_kmh) ==
    /\ track_id \in DOMAIN speeds
    /\ speeds[track_id] - speed_kmh >= braking_thresh
    /\ track_id \notin flagged

\* the hard-braking condition of one observation
BrakingDetected(speeds, flagged, track_id, speed_kmh) ==
    /\ track_id \in DOMAIN speeds
    /\ speeds[track_id] - speed_kmh > braking_thresh
    /\ track_id \notin flagged

\* line - tol <= cy <= line + tol
InBand(cy, line, tol) == line - tol <= cy /\ cy <= line + tol

\* CountsDownward without the test that the entity touched the red band
CountsDownwardUntouched(touched, counted, track_id, cy) ==
    /\ track_id \notin counted
    /\ InBand(cy, line_y_blue, CountTol)

\* CountsDownward without the test that the entity is not yet counted
CountsDownwardAgain(touched, counted, track_id, cy) ==
    /\ track_id \in DOMAIN touched
    /\ InBand(cy, line_y_blue, CountTol)

\* the downward (red -> blue) counting condition
CountsDownward(touched, counted, track_id, cy) ==
    /\ track_id \in DOMAIN touched
    /\ track_id \notin counted
    /\ InBand(cy, line_y_blue, CountTol)

\* CountsUpward that leaves out an entity already counted downward
CountsUpwardBlocked(touched, counted, track_id, cy) ==
    /\ track_id \in DOMAIN touched
    /\ track_id \notin counted
    /\ track_id \notin counted_ids_red_to_blue
    /\ InBand(cy, line_y_red, CountTol)

\* CountsUpward with a count band one pixel wider
CountsUpwardWide(touched, counted, track_id, cy) ==
    /\ track_id \in DOMAIN touched
    /\ track_id \notin counted
    /\ InBand(cy, line_y_red, CountTol + 1)

\* the upward (blue -> red) counting condition
CountsUpward(touched, counted, track_id, cy) ==
    /\ track_id \in DOMAIN touched
    /\ track_id \notin counted
    /\ InBand(cy, line_y_red, CountTol)

\* TrackObs with the counting tests made before the touch marks of the
\* observation are set
TrackObsCountsBeforeTouch(st, o) ==
    LET track_id == o.id
        c == Center(o.box)
        cy == c[2]
        class_name == o.cls
        speed_kmh == SpeedKmh(st.prev_positions, track_id, c)
        braking_flag ==
            BrakingDetected(st.prev_speeds, st.braking_flagged, track_id, speed_kmh)
        red1 == IF InBand(cy, line_y_red, TouchTol)
                   /\ track_id \notin DOMAIN st.crossed_red_first
                THEN Put(st.crossed_red_first, track_id, TRUE)
                ELSE st.crossed_red_first
        blue1 == IF InBand(cy, line_y_blue, TouchTol)
                    /\ track_id \notin DOMAIN st.crossed_blue_first
                 THEN Put(st.crossed_blue_first, track_id, TRUE)
                 ELSE st.crossed_blue_first
        down == CountsDownward(st.crossed_red_first, st.counted_ids_red_to_blue,
                               track_id, cy)
        up == CountsUpward(st.crossed_blue_first, st.counted_ids_blue_to_red,
                           track_id, cy)
    IN [ prev_positions |-> Put(st.prev_positions, track_id, c),
         prev_speeds |-> Put(st.prev_speeds, track_id, speed_kmh),
         vehicles_seen |-> Put(st.vehicles_seen, track_id, class_name),
         braking_flagged |->
            IF braking_flag THEN st.braking_flagged \cup {track_id}
            ELSE st.braking_flagged,
         crossed_red_first |-> red1,
         crossed_blue_first |-> blue1,
         count_red_to_blue |->
            IF down THEN Incr(st.count_red_to_blue, class_name)
            ELSE st.count_red_to_blue,
         counted_ids_red_to_blue |->
            IF down THEN st.counted_ids_red_to_blue \cup {track_id}
            ELSE st.counted_ids_red_to_blue,
         count_blue_to_red |->
            IF up THEN Incr(st.count_blue_to_red, class_name)
            ELSE st.count_blue_to_red,
         counted_ids_blue_to_red |->
            IF up THEN st.counted_ids_blue_to_red \cup {track_id}
            ELSE st.counted_ids_blue_to_red,
         vehicle_positions |->
            Append(st.vehicle_positions,
                   <<track_id, c[1], c[2], speed_kmh, class_name>>),
         frame_objects |->
            Append(st.frame_objects,
                   [ id |-> track_id, class |-> class_name, bbox |-> o.box,
                     center |-> c, speed |-> Round2(speed_kmh),
                     braking |-> braking_flag ]) ]

\* one iteration of the loop over the frame's detections
TrackObs(st, o) ==
    LET track_id == o.id
        c == Center(o.box)
        cy == c[2]
        class_name == o.cls
        speed_kmh == SpeedKmh(st.prev_positions, track_id, c)
        braking_flag ==
            BrakingDetected(st.prev_speeds, st.braking_flagged, track_id, speed_kmh)
        red1 == IF InBand(cy, line_y_red, TouchTol)
                   /\ track_id \notin DOMAIN st.crossed_red_first
                THEN Put(st.crossed_red_first, track_id, TRUE)
                ELSE st.crossed_red_first
        blue1 == IF InBand(cy, line_y_blue, TouchTol)
                    /\ track_id \notin DOMAIN st.crossed_blue_first
                 THEN Put(st.crossed_blue_first, track_id, TRUE)
                 ELSE st.crossed_blue_first
        down == CountsDownward(red1, st.counted_ids_red_to_blue, track_id, cy)
        up == CountsUpward(blue1, st.counted_ids_blue_to_red, track_id, cy)
    IN [ prev_positions |-> Put(st.prev_positions, track_id, c),
         prev_speeds |-> Put(st.prev_speeds, track_id, speed_kmh),
         vehicles_seen |-> Put(st.vehicles_seen, track_id, class_name),
         braking_flagged |->
            IF braking_flag THEN st.braking_flagged \cup {track_id}
            ELSE st.braking_flagged,
         crossed_red_first |-> red1,
         crossed_blue_first |-> blue1,
         count_red_to_blue |->
            IF down THEN Incr(st.count_red_to_blue, class_name)
            ELSE st.count_red_to_blue,
         counted_ids_red_to_blue |->
            IF down THEN st.counted_ids_red_to_blue \cup {track_id}
            ELSE st.counted_ids_red_to_blue,
         count_blue_to_red |->
            IF up THEN Incr(st.count_blue_to_red, class_name)
            ELSE st.count_blue_to_red,
         counted_ids_blue_to_red |->
            IF up THEN st.counted_ids_blue_to_red \cup {track_id}
            ELSE st.counted_ids_blue_to_red,
         vehicle_positions |->
            Append(st.vehicle_positions,
                   <<track_id, c[1], c[2], speed_kmh, class_name>>),
         frame_objects |->
            Append(st.frame_objects,
                   [ id |-> track_id, class |-> class_name, bbox |-> o.box,
                     center |-> c, speed |-> Round2(speed_kmh),
                     braking |-> braking_flag ]) ]

RECURSIVE TrackAll(_, _)
\* the loop over zip(boxes, track_ids, class_indices)
TrackAll(st, obs) ==
    IF obs = <<>> THEN st ELSE TrackAll(TrackObs(st, Head(obs)), Tail(obs))

-----------------------------------------------------------------------------
(* Pairwise step: lines 179-203 *)

\* PairKey without the sort: the pair in the order the frame lists it
PairKeyUnsorted(id1, id2) == <<id1, id2>>

\* tuple(sorted([id1, id2]))
PairKey(id1, id2) == <<Min2(id1, id2), Max2(id1, id2)>>

\* TailgatingDetected without the test that the pair is not yet flagged
TailgatingDetectedAgain(flagged, pair, dist_m) ==
    dist_m < tailgating_thresh

\* the tailgating condition of one pair
TailgatingDetected(flagged, pair, dist_m) ==
    dist_m < tailgating_thresh /\ pair \notin flagged

\* DistanceRecord with the distance cut to two decimals instead of rounded
DistanceRecordTruncated(frame, a, b, dist_m) ==
    [ frame |-> frame, id1 |-> a[1], id2 |-> b[1],
      speed1 |-> Round2(a[4]), speed2 |-> Round2(b[4]),
      distance |-> (dist_m \div 10) * 10 ]

\* the record appended to distance_records for one pair
DistanceRecord(frame, a, b, dist_m) ==
    [ frame |-> frame, id1 |-> a[1], id2 |-> b[1],
      speed1 |-> Round2(a[4]), speed2 |-> Round2(b[4]),
      distance |-> Round2(dist_m) ]

\* PairStep that logs the distance of a pair only while it is not yet flagged
PairStepSkipsFlagged(st, a, b) ==
    LET dist_m == ScaledDist(a[2] - b[2], a[3] - b[3], pixel_to_meter)
        pair == <<Min2(a[1], b[1]), Max2(a[1], b[1])>>
        tailgating == dist_m < tailgating_thresh /\ pair \notin st.tailgating_flagged
    IN [ st EXCEPT
           !.distance_records =
               IF pair \in st.tailgating_flagged THEN @
               ELSE Append(@, [ frame |-> st.frame_no, id1 |-> a[1],
                                id2 |-> b[1], speed1 |-> Round2(a[4]),
                                speed2 |-> Round2(b[4]),
                                distance |-> Round2(dist_m) ]),
           !.tailgating_flagged = IF tailgating THEN @ \cup {pair} ELSE @,
           !.frame_objects =
               IF tailgating
               THEN Append(@, [ tailgating_pair |-> pair,
                                distance |-> Round2(dist_m) ])
               ELSE @ ]

\* the body of the inner loop for vehicle_positions[i], vehicle_positions[j]
PairStep(st, a, b) ==
    LET dist_m == ScaledDist(a[2] - b[2], a[3] - b[3], pixel_to_meter)
        pair == PairKey(a[1], b[1])
        tailgating == TailgatingDetected(st.tailgating_flagged, pair, dist_m)
    IN [ st EXCEPT
           !.distance_records =
               Append(@, DistanceRecord(st.frame_no, a, b, dist_m)),
           !.tailgating_flagged = IF tailgating THEN @ \cup {pair} ELSE @,
           !.frame_objects =
               IF tailgating
               THEN Append(@, [ tailgating_pair |-> pair,
                                distance |-> Round2(dist_m) ])
               ELSE @ ]

RECURSIVE ProximityLoop(_, _, _, _)
\* for i in range(n): for j in range(i + 1, n)
ProximityLoop(st, vp, i, j) ==
    IF i > Len(vp) THEN st
    ELSE IF j > Len(vp) THEN ProximityLoop(st, vp, i + 1, i + 2)
    ELSE ProximityLoop(PairStep(st, vp[i], vp[j]), vp, i, j + 1)

-----------------------------------------------------------------------------
(* Platoon step: lines 212-215 *)

\* IsPlatoon with a strict comparison
IsPlatoonStrict(vp) == Len(vp) > PlatoonMin

\* len(vehicle_positions) >= 3
IsPlatoon(vp) == Len(vp) >= PlatoonMin

\* sum(group_speeds) / len(group_speeds)
PlatoonSample(vp) == SumSeq([i \in 1..Len(vp) |-> vp[i][4]]) \div Len(vp)

-----------------------------------------------------------------------------
(* Summary: lines 246-283 *)

\* VehicleCounts whose total is the length of the histogram (the number of
\* classes seen) instead of the length of vehicles_seen
VehicleCountsOfClasses(seen) ==
    LET classes == {seen[t] : t \in DOMAIN seen}
        hist == [c \in classes |->
                    Cardinality({t \in DOMAIN seen : seen[t] = c})]
    IN [x \in classes \cup {"total_unique_vehicles"} |->
           IF x = "total_unique_vehicles" THEN Cardinality(classes)
           ELSE hist[x]]

\* the per-class histogram of vehicles_seen plus the total, in one dict
VehicleCounts(seen) ==
    LET classes == {seen[t] : t \in DOMAIN seen}
        hist == [c \in classes |->
                    Cardinality({t \in DOMAIN seen : seen[t] = c})]
    IN Put(hist, "total_unique_vehicles", Cardinality(DOMAIN seen))

\* sum(1 for d in distance_records if d["distance"] < tailgating_thresh)
CloseProximityCount(records) ==
    Cardinality({i \in 1..Len(records) :
                    records[i].distance < tailgating_thresh})

\* round(sum(platoon_speeds)/len(platoon_speeds), 2) if platoon_speeds else 0
AvgPlatoonSpeed(samples) ==
    IF samples # <<>> THEN Round2(SumSeq(samples) \div Len(samples)) ELSE 0

BuildSummary ==
    [ video_info |->
        [ total_frames |-> frame_no,
          fps |-> fps,
          duration_seconds |-> Round2((frame_no * 1000) \div fps) ],
      vehicle_counts |->
        [ unique_vehicles |-> VehicleCounts(vehicles_seen),
          directional_counts |->
            [ downward |-> count_red_to_blue,
              upward |-> count_blue_to_red,
              total_downward |-> SumValues(count_red_to_blue),
              total_upward |-> SumValues(count_blue_to_red) ] ],
      violations |->
        [ hard_braking_count |-> Cardinality(braking_flagged),
          hard_braking_ids |-> braking_flagged,
          tailgating_count |-> Cardinality(tailgating_flagged),
          tailgating_pairs |-> tailgating_flagged ],
      speed_analysis |->
        [ avg_platoon_speed_kmh |-> AvgPlatoonSpeed(platoon_speeds),
          platoon_frames |-> Len(platoon_speeds) ],
      distance_analysis |->
        [ total_distance_records |-> Len(distance_records),
          close_proximity_count |-> CloseProximityCount(distance_records) ] ]

-----------------------------------------------------------------------------
(* Observations on which the loop body raises *)

\* class_list = model.names: the labels that the class indices of the
\* detector select; an observation's cls stands for the label of its index
ModelNames == {"car", "truck"}

\* the loop body raises on o: its box does not unpack into four integers
\* (ValueError, line 106) or its class index is no key of class_list
\* (KeyError, line 109)
Raises(o) == Len(o.box) # 4 \/ o.cls \notin ModelNames

\* the position in obs of the first observation on which the loop body raises
FirstRaising(obs) ==
    CHOOSE i \in 1..Len(obs) :
        Raises(obs[i]) /\ \A j \in 1..(i - 1) : ~Raises(obs[j])

-----------------------------------------------------------------------------
(* A run as a value: the state of one invocation held in a record, for a    *)
(* second invocation that runs beside the first.  Both are called without   *)
(* arguments (dem.py), so they share the parameter values.                  *)

\* the state after lines 53-76
RunInit ==
    [ prev_positions |-> EmptyDict,
      prev_speeds |-> EmptyDict,
      vehicles_seen |-> EmptyDict,
      braking_flagged |-> {},
      tailgating_flagged |-> {},
      platoon_speeds |-> <<>>,
      counted_ids_red_to_blue |-> {},
      counted_ids_blue_to_red |-> {},
      count_red_to_blue |-> EmptyDict,
      count_blue_to_red |-> EmptyDict,
      crossed_red_first |-> EmptyDict,
      crossed_blue_first |-> EmptyDict,
      distance_records |-> <<>>,
      frame_data |-> <<>>,
      frame_no |-> 0,
      summary |-> NoSummary,
      pc |-> "loop" ]

\* one pass of the while loop of the run rs over the detections obs
RunReadFrame(rs, obs) ==
    LET st1 == TrackAll([ prev_positions |-> rs.prev_positions,
                          prev_speeds |-> rs.prev_speeds,
                          vehicles_seen |-> rs.vehicles_seen,
                          braking_flagged |-> rs.braking_flagged,
                          crossed_red_first |-> rs.crossed_red_first,
                          crossed_blue_first |-> rs.crossed_blue_first,
                          count_red_to_blue |-> rs.count_red_to_blue,
                          counted_ids_red_to_blue |-> rs.counted_ids_red_to_blue,
                          count_blue_to_red |-> rs.count_blue_to_red,
                          counted_ids_blue_to_red |-> rs.counted_ids_blue_to_red,
                          vehicle_positions |-> <<>>,
                          frame_objects |-> <<>> ], obs)
        vp == st1.vehicle_positions
        pr1 == ProximityLoop([ frame_no |-> rs.frame_no + 1,
                               distance_records |-> rs.distance_records,
                               tailgating_flagged |-> rs.tailgating_flagged,
                               frame_objects |-> st1.frame_objects ],
                             vp, 1, 2)
    IN [ prev_positions |-> st1.prev_positions,
         prev_speeds |-> st1.prev_speeds,
         vehicles_seen |-> st1.vehicles_seen,
         braking_flagged |-> st1.braking_flagged,
         tailgating_flagged |-> pr1.tailgating_flagged,
         platoon_speeds |->
            IF IsPlatoon(vp) THEN Append(rs.platoon_speeds, PlatoonSample(vp))
            ELSE rs.platoon_speeds,
         counted_ids_red_to_blue |-> st1.counted_ids_red_to_blue,
         counted_ids_blue_to_red |-> st1.counted_ids_blue_to_red,
         count_red_to_blue |-> st1.count_red_to_blue,
         count_blue_to_red |-> st1.count_blue_to_red,
         crossed_red_first |-> st1.crossed_red_first,
         crossed_blue_first |-> st1.crossed_blue_first,
         distance_records |-> pr1.distance_records,
         frame_data |->
            Append(rs.frame_data,
                   [ frame |-> rs.frame_no + 1, objects |-> pr1.frame_objects ]),
         frame_no |-> rs.frame_no + 1,
         summary |-> rs.summary,
         pc |-> rs.pc ]

\* the summary built from the state of the run rs (lines 246-283)
SummaryOf(rs) ==
    [ video_info |->
        [ total_frames |-> rs.frame_no,
          fps |-> fps,
          duration_seconds |-> Round2((rs.frame_no * 1000) \div fps) ],
      vehicle_counts |->
        [ unique_vehicles |-> VehicleCounts(rs.vehicles_seen),
          directional_counts |->
            [ downward |-> rs.count_red_to_blue,
              upward |-> rs.count_blue_to_red,
              total_downward |-> SumValues(rs.count_red_to_blue),
              total_upward |-> SumValues(rs.count_blue_to_red) ] ],
      violations |->
        [ hard_braking_count |-> Cardinality(rs.braking_flagged),
          hard_braking_ids |-> rs.braking_flagged,
          tailgating_count |-> Cardinality(rs.tailgating_flagged),
          tailgating_pairs |-> rs.tailgating_flagged ],
      speed_analysis |->
        [ avg_platoon_speed_kmh |-> AvgPlatoonSpeed(rs.platoon_speeds),
          platoon_frames |-> Len(rs.platoon_speeds) ],
      distance_analysis |->
        [ total_distance_records |-> Len(rs.distance_records),
          close_proximity_count |-> CloseProximityCount(rs.distance_records) ] ]

\* the loop exit and return of the run rs
RunEndOfStream(rs) == [rs EXCEPT !.summary = SummaryOf(rs), !.pc = "done"]

-----------------------------------------------------------------------------
(* State machine *)

\* the state after lines 38-76, for one choice of parameters and video fps
InitWith(configs) ==
    /\ \E c \in configs :
        /\ pixel_to_meter = c.pixel_to_meter
        /\ tailgating_thresh = c.tailgating_thresh
        /\ braking_thresh = c.braking_thresh
        /\ line_y_red = c.line_y_red
        /\ line_y_blue = c.line_y_blue
        /\ fps = c.fps
    /\ prev_positions = EmptyDict
    /\ prev_speeds = EmptyDict
    /\ vehicles_seen = EmptyDict
    /\ braking_flagged = {}
    /\ tailgating_flagged = {}
    /\ platoon_speeds = <<>>
    /\ counted_ids_red_to_blue = {}
    /\ counted_ids_blue_to_red = {}
    /\ count_red_to_blue = EmptyDict
    /\ count_blue_to_red = EmptyDict
    /\ crossed_red_first = EmptyDict
    /\ crossed_blue_first = EmptyDict
    /\ distance_records = <<>>
    /\ frame_data = <<>>
    /\ frame_no = 0
    /\ summary = NoSummary
    /\ pc = "loop"
    /\ cap = "open"
    /\ other_run = RunInit
    /\ response = NoResponse

\* one pass of the while loop with ret = True: the frame's detections obs,
\* a non-empty sequence of [id, box, cls] with pairwise distinct ids (the
\* tracker gives each box of a frame its own id); the branch at line 90 is
\* taken, boxes.data being a tensor whenever the tracker returns boxes; no
\* statement of the loop body raises
ReadFrame(obs) ==
    /\ pc = "loop"
    /\ cap = "open"
    /\ \A i \in 1..Len(obs) : ~Raises(obs[i])
    /\ LET st0 == [ prev_positions |-> prev_positions,
                    prev_speeds |-> prev_speeds,
                    vehicles_seen |-> vehicles_seen,
                    braking_flagged |-> braking_flagged,
                    crossed_red_first |-> crossed_red_first,
                    crossed_blue_first |-> crossed_blue_first,
                    count_red_to_blue |-> count_red_to_blue,
                    counted_ids_red_to_blue |-> counted_ids_red_to_blue,
                    count_blue_to_red |-> count_blue_to_red,
                    counted_ids_blue_to_red |-> counted_ids_blue_to_red,
                    vehicle_positions |-> <<>>,
                    frame_objects |-> <<>> ]
       IN \* st1, pr1: each loop is evaluated once and bound to its result
          \E st1 \in {TrackAll(st0, obs)} :
          \E pr1 \in {ProximityLoop(
                        [ frame_no |-> frame_no + 1,
                          distance_records |-> distance_records,
                          tailgating_flagged |-> tailgating_flagged,
                          frame_objects |-> st1.frame_objects ],
                        st1.vehicle_positions, 1, 2)} :
          LET vp == st1.vehicle_positions IN
          /\ frame_no' = frame_no + 1
          /\ prev_positions' = st1.prev_positions
          /\ prev_speeds' = st1.prev_speeds
          /\ vehicles_seen' = st1.vehicles_seen
          /\ braking_flagged' = st1.braking_flagged
          /\ crossed_red_first' = st1.crossed_red_first
          /\ crossed_blue_first' = st1.crossed_blue_first
          /\ count_red_to_blue' = st1.count_red_to_blue
          /\ counted_ids_red_to_blue' = st1.counted_ids_red_to_blue
          /\ count_blue_to_red' = st1.count_blue_to_red
          /\ counted_ids_blue_to_red' = st1.counted_ids_blue_to_red
          /\ distance_records' = pr1.distance_records
          /\ tailgating_flagged' = pr1.tailgating_flagged
          /\ platoon_speeds' =
                IF IsPlatoon(vp) THEN Append(platoon_speeds, PlatoonSample(vp))
                ELSE platoon_speeds
          /\ frame_data' =
                Append(frame_data,
                       [ frame |-> frame_no + 1, objects |-> pr1.frame_objects ])
    /\ UNCHANGED <<config, summary, pc, cap, other_run, response>>

\* one pass of the while loop in which the loop body raises: the detections
\* before the first raising one have been applied, nothing in the function
\* catches the exception, and the call ends without a return value
ReadFrameRaises(obs) ==
    /\ pc = "loop"
    /\ cap = "open"
    /\ \E i \in 1..Len(obs) : Raises(obs[i])
    /\ LET st0 == [ prev_positions |-> prev_positions,
                    prev_speeds |-> prev_speeds,
                    vehicles_seen |-> vehicles_seen,
                    braking_flagged |-> braking_flagged,
                    crossed_red_first |-> crossed_red_first,
                    crossed_blue_first |-> crossed_blue_first,
                    count_red_to_blue |-> count_red_to_blue,
                    counted_ids_red_to_blue |-> counted_ids_red_to_blue,
                    count_blue_to_red |-> count_blue_to_red,
                    counted_ids_blue_to_red |-> counted_ids_blue_to_red,
                    vehicle_positions |-> <<>>,
                    frame_objects |-> <<>> ]
       IN \E st1 \in {TrackAll(st0, SubSeq(obs, 1, FirstRaising(obs) - 1))} :
          /\ frame_no' = frame_no + 1
          /\ prev_positions' = st1.prev_positions
          /\ prev_speeds' = st1.prev_speeds
          /\ vehicles_seen' = st1.vehicles_seen
          /\ braking_flagged' = st1.braking_flagged
          /\ crossed_red_first' = st1.crossed_red_first
          /\ crossed_blue_first' = st1.crossed_blue_first
          /\ count_red_to_blue' = st1.count_red_to_blue
          /\ counted_ids_red_to_blue' = st1.counted_ids_red_to_blue
          /\ count_blue_to_red' = st1.count_blue_to_red
          /\ counted_ids_blue_to_red' = st1.counted_ids_blue_to_red
    /\ pc' = "raised"
    /\ UNCHANGED <<config, distance_records, tailgating_flagged,
                   platoon_speeds, frame_data, summary, cap, other_run,
                   response>>

\* the variables that the code after the loop (lines 241-283) only reads
accumulators == <<prev_positions, prev_speeds, vehicles_seen,
                  braking_flagged, tailgating_flagged, platoon_speeds,
                  counted_ids_red_to_blue, counted_ids_blue_to_red,
                  count_red_to_blue, count_blue_to_red, crossed_red_first,
                  crossed_blue_first, distance_records, frame_data, frame_no>>

\* cap.read() returns ret = False after the last frame of the video: leave the
\* loop, build and return the summary
EndOfStream ==
    /\ pc = "loop"
    /\ cap = "open"
    /\ cap' = "ended"
    /\ summary' = BuildSummary
    /\ pc' = "done"
    /\ UNCHANGED <<config, accumulators, other_run, response>>

\* cap.read() returns ret = False because the capture failed in mid-stream:
\* the loop tests ret only, so it is left as at the end of the video, and the
\* summary is built and returned
StreamFailure ==
    /\ pc = "loop"
    /\ cap = "open"
    /\ cap' = "failed"
    /\ summary' = BuildSummary
    /\ pc' = "done"
    /\ UNCHANGED <<config, accumulators, other_run, response>>

\* OtherReadFrame with the distance log kept at module level, one list that
\* both invocations append to
OtherReadFrameSharedLog(obs) ==
    /\ other_run.pc = "loop"
    /\ \A i \in 1..Len(obs) : ~Raises(obs[i])
    /\ \E r \in {RunReadFrame([other_run EXCEPT
                                   !.distance_records = distance_records],
                               obs)} :
          /\ other_run' = r
          /\ distance_records' = r.distance_records
    /\ UNCHANGED <<config, prev_positions, prev_speeds, vehicles_seen,
                   braking_flagged, tailgating_flagged, platoon_speeds,
                   counted_ids_red_to_blue, counted_ids_blue_to_red,
                   count_red_to_blue, count_blue_to_red, crossed_red_first,
                   crossed_blue_first, frame_data, frame_no, summary, pc, cap,
                   response>>

\* one pass of the while loop of the second invocation: it reads and writes
\* its own local variables only
OtherReadFrame(obs) ==
    /\ other_run.pc = "loop"
    /\ \A i \in 1..Len(obs) : ~Raises(obs[i])
    /\ other_run' = RunReadFrame(other_run, obs)
    /\ UNCHANGED <<config, accumulators, summary, pc, cap, response>>

\* the second invocation leaves its loop and returns its summary
OtherEndOfStream ==
    /\ other_run.pc = "loop"
    /\ other_run' = RunEndOfStream(other_run)
    /\ UNCHANGED <<config, accumulators, summary, pc, cap, response>>

-----------------------------------------------------------------------------
(* Intersection: dem.py, lines 148-203 *)

\* combined_vehicle_counts[cls] = combined_vehicle_counts.get(cls, 0) + count
\* for every item of the dict d
AddCounts(combined, d) ==
    [c \in (DOMAIN combined) \cup (DOMAIN d) |->
        (IF c \in DOMAIN combined THEN combined[c] ELSE 0)
        + (IF c \in DOMAIN d THEN d[c] ELSE 0)]

RECURSIVE CombinedVehicleCounts(_)
\* the loop over the summaries that fills combined_vehicle_counts
CombinedVehicleCounts(summaries) ==
    IF summaries = <<>> THEN EmptyDict
    ELSE AddCounts(
            CombinedVehicleCounts(SubSeq(summaries, 1, Len(summaries) - 1)),
            summaries[Len(summaries)].vehicle_counts.unique_vehicles)

\* the "intersection_summary" of the response
IntersectionSummary(summaries) ==
    [ total_vehicles |-> SumValues(CombinedVehicleCounts(summaries)),
      vehicle_counts |-> CombinedVehicleCounts(summaries),
      violations |->
        [ hard_brakes |->
            SumSeq([i \in 1..Len(summaries) |->
                       summaries[i].violations.hard_braking_count]),
          tailgating |->
            SumSeq([i \in 1..Len(summaries) |->
                       summaries[i].violations.tailgating_count]) ] ]

\* the rows of total_clear_time_and_rows: math.ceil(queue_length / lanes),
\* 0 for an empty queue
TotalRows(queue_length, lanes) ==
    IF queue_length <= 0 \/ lanes <= 0 THEN 0
    ELSE (queue_length + lanes - 1) \div lanes

\* calculate_signal_metrics: the counts, the total passed as queue length
\* and the violations of one signal.  (The clearance time, computed from the
\* rows alone, and the priority score are left out.)
CalculateSignalMetrics(s, lanes) ==
    LET vehicle_counts == s.vehicle_counts.unique_vehicles
        total_vehicles == SumValues(vehicle_counts)
    IN [ vehicle_counts |-> vehicle_counts,
         total_vehicles |-> total_vehicles,
         violations |->
           [ hard_brakes |-> s.violations.hard_braking_count,
             tailgating |-> s.violations.tailgating_count ],
         green_time |-> [ total_rows |-> TotalRows(total_vehicles, lanes) ] ]

\* the response: per signal its summary and metrics, in the order of the
\* calls, and the intersection summary
BuildResponse(summaries, lanes) ==
    [ signals |->
        [i \in 1..Len(summaries) |->
            [ summary |-> summaries[i],
              metrics |-> CalculateSignalMetrics(summaries[i], lanes) ]],
      intersection_summary |-> IntersectionSummary(summaries) ]

\* analyze_intersection1 after its calls have returned: the summaries are
\* combined.  (dem.py combines four runs, analyze1 to analyze4; tracking1 to
\* tracking3 are not among the sources, and the runs combined here are two
\* invocations of tracking4.)
AnalyzeIntersection ==
    /\ pc = "done"
    /\ other_run.pc = "done"
    /\ response = NoResponse
    /\ response' = BuildResponse(<<summary, other_run.summary>>, DefaultLanes)
    /\ UNCHANGED <<config, accumulators, summary, pc, cap, other_run>>

-----------------------------------------------------------------------------
(* Inputs *)

\* the call analyze4() of dem.py: every parameter at its default
DefaultConfig ==
    [ pixel_to_meter |-> DefaultPixelToMeter,
      tailgating_thresh |-> DefaultTailgatingThresh,
      braking_thresh |-> DefaultBrakingThresh,
      line_y_red |-> DefaultLineYRed,
      line_y_blue |-> DefaultLineYBlue,
      fps |-> 10 ]

RECURSIVE Ascending(_)
\* the elements of a finite set of integers in increasing order
Ascending(S) ==
    IF S = {} THEN <<>>
    ELSE LET m == CHOOSE x \in S : \A y \in S : x <= y
         IN <<m>> \o Ascending(S \ {m})

Reverse(s) == [i \in 1..Len(s) |-> s[Len(s) + 1 - i]]

\* the orders in which the tracker lists the identities S of a frame
Orders(S) == {Ascending(S), Reverse(Ascending(S))}

\* a bounding box with integer midpoint <<cx, cy>> (odd height: the midpoint floors)
BoxAround(cx, cy) == <<cx - 15, cy - 10, cx + 15, cy + 11>>

\* the frames whose visible identities are drawn from ids, identity t at a
\* center of CenterOf[t] with a class of ClassesOf[t]
FramesOver(ids, CenterOf, ClassesOf) ==
    UNION { UNION { { [i \in 1..Len(order) |->
                        [ id |-> order[i],
                          box |-> BoxAround(at[order[i]][1], at[order[i]][2]),
                          cls |-> cl[order[i]] ]]
                      : at \in { f \in [S -> UNION {CenterOf[t] : t \in S}] :
                                   \A t \in S : f[t] \in CenterOf[t] },
                        cl \in { g \in [S -> UNION {ClassesOf[t] : t \in S}] :
                                   \A t \in S : g[t] \in ClassesOf[t] } }
                    : order \in Orders(S) }
            : S \in (SUBSET ids) \ {{}} }

(* Multi-entity runs: three vehicles in lanes 100 px apart, each seen on    *)
(* the red line or, 151 px further along its lane, on the blue line.  Two    *)
(* vehicles are then 70 to 100 px apart (below the default tailgating        *)
(* threshold), exactly 200 px apart (10 m, on the threshold) or further.     *)
Ids == {1, 2, 3}

LaneCenters == [t \in Ids |-> { <<100 * t, DefaultLineYRed>>,
                                <<100 * t + 151, DefaultLineYBlue>> }]

LaneClasses == [t \in Ids |-> IF t = 2 THEN {"truck"} ELSE {"car"}]

MultiFrames == FramesOver(Ids, LaneCenters, LaneClasses)

Init == InitWith({DefaultConfig})

Next ==
    \/ /\ frame_no < MaxFrames
       /\ \E obs \in MultiFrames : ReadFrame(obs)
    \/ EndOfStream

Spec == Init /\ [][Next]_vars

(* Crossing runs: one vehicle per frame.  Vehicle 1 is seen on a line, 4 px *)
(* off a line (inside the count band, outside the touch band) or between    *)
(* the lines, and its class label may change; vehicle 2 is seen on a line.  *)
TrackYs == { DefaultLineYRed, DefaultLineYRed + 4, 375,
             DefaultLineYBlue - 4, DefaultLineYBlue }

TrackFrames ==
    FramesOver({1}, [t \in {1} |-> {<<120, y>> : y \in TrackYs}],
               [t \in {1} |-> {"car", "truck"}])
    \cup FramesOver({2}, [t \in {2} |-> { <<140, DefaultLineYRed>>,
                                          <<140, DefaultLineYBlue>> }],
                    [t \in {2} |-> {"car"}])

InitTrack == InitWith({DefaultConfig})

NextTrack ==
    \/ /\ frame_no < MaxFramesTrack
       /\ \E obs \in TrackFrames : ReadFrame(obs)
    \/ EndOfStream

SpecTrack == InitTrack /\ [][NextTrack]_vars

(* Braking runs: one vehicle seen in every frame, on a line or midway.      *)
BrakeFrames ==
    FramesOver({1}, [t \in {1} |-> { <<120, DefaultLineYRed>>, <<120, 375>>,
                                     <<120, DefaultLineYBlue>> }],
               [t \in {1} |-> {"car"}])

InitBrake == InitWith({DefaultConfig})

NextBrake ==
    \/ /\ frame_no < MaxFramesBrake
       /\ \E obs \in BrakeFrames : ReadFrame(obs)
    \/ EndOfStream

SpecBrake == InitBrake /\ [][NextBrake]_vars

(* Configuration runs: two vehicles seen at y = 350 or y = 400, under the   *)
(* defaults and under parameters the documentation rules out.               *)
CfgConfigs ==
    { DefaultConfig,
      [DefaultConfig EXCEPT !.pixel_to_meter = 0],
      [DefaultConfig EXCEPT !.pixel_to_meter = 0 - DefaultPixelToMeter],
      [DefaultConfig EXCEPT !.line_y_blue = DefaultLineYRed],
      [DefaultConfig EXCEPT !.line_y_red = DefaultLineYBlue,
                            !.line_y_blue = DefaultLineYRed] }

CfgFrames ==
    FramesOver({1, 2},
               [t \in {1, 2} |-> { <<100 * t, DefaultLineYRed>>,
                                   <<100 * t, DefaultLineYBlue>> }],
               [t \in {1, 2} |-> {"car"}])

InitCfg == InitWith(CfgConfigs)

NextCfg ==
    \/ /\ frame_no < MaxFramesCfg
       /\ \E obs \in CfgFrames : ReadFrame(obs)
    \/ EndOfStream

SpecCfg == InitCfg /\ [][NextCfg]_vars

(* Failure runs: the frames of the configuration runs under the defaults,   *)
(* the same frames with the box of one detection lost or its class index    *)
(* outside class_list, and a capture that may fail instead of ending.       *)
ErrFrames == CfgFrames

\* obs with the box of its i-th detection lost
WithoutBox(obs, i) == [obs EXCEPT ![i].box = <<>>]

\* obs with the class index of its i-th detection outside class_list
WithUnlistedClass(obs, i) == [obs EXCEPT ![i].cls = "unlisted"]

MalformedFrames ==
    UNION { UNION { {WithoutBox(obs, i), WithUnlistedClass(obs, i)}
                    : i \in 1..Len(obs) }
            : obs \in ErrFrames }

InitErr == InitWith({DefaultConfig})

NextErr ==
    \/ /\ frame_no < MaxFramesErr
       /\ \E obs \in ErrFrames : ReadFrame(obs)
    \/ /\ frame_no < MaxFramesErr
       /\ \E obs \in MalformedFrames : ReadFrameRaises(obs)
    \/ StreamFailure
    \/ EndOfStream

SpecErr == InitErr /\ [][NextErr]_vars

(* Intersection runs: two invocations whose frame steps interleave in any   *)
(* order.  Each sees vehicle 1 on the red line, on the blue line, or on the *)
(* blue line with vehicle 2 one metre beside it; the trackers of the two    *)
(* runs number their vehicles independently, so the ids coincide.           *)
TwoFrames ==
    { <<[id |-> 1, box |-> BoxAround(120, DefaultLineYRed), cls |-> "car"]>>,
      <<[id |-> 1, box |-> BoxAround(120, DefaultLineYBlue), cls |-> "car"]>>,
      <<[id |-> 1, box |-> BoxAround(120, DefaultLineYBlue), cls |-> "car"],
        [id |-> 2, box |-> BoxAround(140, DefaultLineYBlue), cls |-> "truck"]>> }

InitTwo == InitWith({DefaultConfig})

NextTwo ==
    \/ /\ frame_no < MaxFramesTwo
       /\ \E obs \in TwoFrames : ReadFrame(obs)
    \/ /\ other_run.frame_no < MaxFramesTwo
       /\ \E obs \in TwoFrames : OtherReadFrame(obs)
    \/ EndOfStream
    \/ OtherEndOfStream
    \/ AnalyzeIntersection

SpecTwo == InitTwo /\ [][NextTwo]_vars

(* Report runs: vehicle 1 on the red or on the blue line under a class      *)
(* label that may change, vehicle 2 on the blue line one metre beside the   *)
(* lane of vehicle 1; each frame shows one of them or both, in either order.*)
ReportFrames ==
    FramesOver({1, 2},
               [t \in {1, 2} |->
                   IF t = 1 THEN { <<120, DefaultLineYRed>>,
                                   <<120, DefaultLineYBlue>> }
                   ELSE { <<140, DefaultLineYBlue>> }],
               [t \in {1, 2} |-> IF t = 1 THEN {"car", "truck"} ELSE {"car"}])

InitReport == InitWith({DefaultConfig})

NextReport ==
    \/ /\ frame_no < MaxFramesReport
       /\ \E obs \in ReportFrames : ReadFrame(obs)
    \/ EndOfStream

SpecReport == InitReport /\ [][NextReport]_vars

(* Speed runs: braking_thresh = 9 km/h; vehicle 1 at (100, 100), (100, 110) *)
(* or (100, 115) and vehicle 2 at (300, 100) or (300, 115), alone or both.  *)
(* A move of 5, 10 or 15 px is a speed of 9, 18 or 27 km/h, so a speed can  *)
(* rise, or drop by exactly the threshold or by more.                       *)
SpeedConfig == [DefaultConfig EXCEPT !.braking_thresh = 9000]

SpeedFrames ==
    LET at(t, c) == [ id |-> t, box |-> BoxAround(c[1], c[2]), cls |-> "car" ]
        P1 == { <<100, 100>>, <<100, 110>>, <<100, 115>> }
        P2 == { <<300, 100>>, <<300, 115>> }
    IN { <<at(1, c)>> : c \in P1 } \cup { <<at(2, c)>> : c \in P2 }
          \cup { <<at(1, c), at(2, d)>> : c \in P1, d \in P2 }

InitSpeed == InitWith({SpeedConfig})

NextSpeed ==
    \/ /\ frame_no < MaxFramesSpeed
       /\ \E obs \in SpeedFrames : ReadFrame(obs)
    \/ EndOfStream

SpecSpeed == InitSpeed /\ [][NextSpeed]_vars

(* Near-lines runs: line_y_blue is 8 or 9 px below line_y_red = 350.  One   *)
(* vehicle, under a class label that may change, is seen on the red line    *)
(* (350), on the edge of its touch band (353), a pixel beyond it (354), or  *)
(* in the touch band of the blue line (356, 360).  At 8 px the red touch    *)
(* band and the blue count band share y = 353; at 9 px no touch band meets  *)
(* the count band of the other line.                                        *)
NearConfigs ==
    { [DefaultConfig EXCEPT
          !.line_y_blue = DefaultLineYRed + CountTol + TouchTol],
      [DefaultConfig EXCEPT
          !.line_y_blue = DefaultLineYRed + CountTol + TouchTol + 1] }

NearFrames ==
    FramesOver({1},
               [t \in {1} |-> { <<120, DefaultLineYRed>>,
                                <<120, DefaultLineYRed + TouchTol>>,
                                <<120, DefaultLineYRed + TouchTol + 1>>,
                                <<120, DefaultLineYRed + 6>>,
                                <<120, DefaultLineYRed + 10>> }],
               [t \in {1} |-> {"car", "truck"}])

InitNear == InitWith(NearConfigs)

NextNear ==
    \/ /\ frame_no < MaxFramesNear
       /\ \E obs \in NearFrames : ReadFrame(obs)
    \/ EndOfStream

SpecNear == InitNear /\ [][NextNear]_vars

(* Proximity runs: vehicle 1 at (100, 100) and vehicle 2 in the next lane,  *)
(* 199 px away (9.95 m), 199.9 px away (sqrt(199^2 + 19^2) px = 9.99525 m,    *)
(* below the default tailgating threshold of 10 m and 10.0 m once rounded    *)
(* to two decimals) or 200 px away (on the threshold).                       *)
NearbyFrames ==
    FramesOver({1, 2},
               [t \in {1, 2} |->
                   IF t = 1 THEN { <<100, 100>> }
                   ELSE { <<299, 100>>, <<299, 119>>, <<300, 100>> }],
               [t \in {1, 2} |-> {"car"}])

InitClose == InitWith({DefaultConfig})

NextClose ==
    \/ /\ frame_no < MaxFramesClose
       /\ \E obs \in NearbyFrames : ReadFrame(obs)
    \/ EndOfStream

SpecClose == InitClose /\ [][NextClose]_vars

-----------------------------------------------------------------------------
(* Reading the history kept in frame_data *)

\* the entries of frame k's objects that describe a tracked vehicle
TrackEntries(k) ==
    { i \in 1..Len(frame_data[k].objects) :
        "id" \in DOMAIN frame_data[k].objects[i] }

\* the entries of frame k's objects that record a tailgating pair
TailgatingEntries(k) ==
    { i \in 1..Len(frame_data[k].objects) :
        "tailgating_pair" \in DOMAIN frame_data[k].objects[i] }

\* the identities visible in frame k
VisibleIn(k) == { frame_data[k].objects[i].id : i \in TrackEntries(k) }

\* the entries of frame k in which identity t is reported as braking
BrakingEntries(k, t) ==
    { i \in TrackEntries(k) :
        /\ frame_data[k].objects[i].id = t
        /\ frame_data[k].objects[i].braking }

\* the speed reported for identity t in frame k (t visible in k)
ReportedSpeed(k, t) ==
    LET i == CHOOSE j \in TrackEntries(k) : frame_data[k].objects[j].id = t
    IN frame_data[k].objects[i].speed

\* the bounding box reported for identity t in frame k (t visible in k)
ReportedBox(k, t) ==
    LET i == CHOOSE j \in TrackEntries(k) : frame_data[k].objects[j].id = t
    IN frame_data[k].objects[i].bbox

\* the center reported for identity t in frame k (t visible in k)
ReportedCenter(k, t) ==
    LET i == CHOOSE j \in TrackEntries(k) : frame_data[k].objects[j].id = t
    IN frame_data[k].objects[i].center

FrameNos == 1..Len(frame_data)

\* the state of the first invocation as a record
MainRun ==
    [ prev_positions |-> prev_positions,
      prev_speeds |-> prev_speeds,
      vehicles_seen |-> vehicles_seen,
      braking_flagged |-> braking_flagged,
      tailgating_flagged |-> tailgating_flagged,
      platoon_speeds |-> platoon_speeds,
      counted_ids_red_to_blue |-> counted_ids_red_to_blue,
      counted_ids_blue_to_red |-> counted_ids_blue_to_red,
      count_red_to_blue |-> count_red_to_blue,
      count_blue_to_red |-> count_blue_to_red,
      crossed_red_first |-> crossed_red_first,
      crossed_blue_first |-> crossed_blue_first,
      distance_records |-> distance_records,
      frame_data |-> frame_data,
      frame_no |-> frame_no,
      summary |-> summary,
      pc |-> pc ]

AllIds == DOMAIN vehicles_seen

-----------------------------------------------------------------------------
(* C1 *)

\* the frames in which identity t raised the one-shot braking event
BrakingFrames(t) == { k \in FrameNos : BrakingEntries(k, t) # {} }

\* C1: the hard-braking event (braking_flag = True, id added to
\* braking_flagged) is produced for an entity in at most one frame of a run,
\* whatever its later speed drops, and an id whose event was produced is in
\* braking_flagged in every later state (it is never removed).
C1_BrakingFlaggedOnce ==
    /\ \A t \in AllIds :
        /\ Cardinality(BrakingFrames(t)) <= 1
        /\ \A k \in FrameNos : Cardinality(BrakingEntries(k, t)) <= 1
        /\ (BrakingFrames(t) # {} <=> t \in braking_flagged)
    /\ braking_flagged \subseteq AllIds

\* a flagged entity whose speed dropped by more than the threshold again in a
\* frame after the one that flagged it
C1_Witness ==
    \E t \in braking_flagged : \E k \in FrameNos : \E m \in FrameNos :
        /\ BrakingEntries(k, t) # {}
        /\ m > k /\ t \in VisibleIn(m) /\ t \in VisibleIn(m - 1)
        /\ ReportedSpeed(m - 1, t) - ReportedSpeed(m, t) > braking_thresh + 10

-----------------------------------------------------------------------------
(* C2 *)

\* the <<frame, entry>> places of frame_data that record a tailgating event
\* for the unordered pair {a, b}
TailgatingEvents(a, b) ==
    { <<k, i>> \in UNION { {k} \X TailgatingEntries(k) : k \in FrameNos } :
        frame_data[k].objects[i].tailgating_pair \in {<<a, b>>, <<b, a>>} }

\* C2: a tailgating record is created at most once per unordered pair of
\* ids; the key does not depend on the order in which the frame lists the
\* two, so tailgating_flagged never holds both <<a, b>> and <<b, a>>, and a
\* pair whose record was created is neither flagged again nor removed (its
\* sorted key is in tailgating_flagged in every later state).
C2_TailgatingPairOnce ==
    /\ \A p \in tailgating_flagged :
        /\ p[1] \in AllIds /\ p[2] \in AllIds
        /\ <<p[2], p[1]>> \notin tailgating_flagged
        /\ Cardinality(TailgatingEvents(p[1], p[2])) = 1
    /\ \A a \in AllIds : \A b \in AllIds :
        TailgatingEvents(a, b) # {} =>
            <<Min2(a, b), Max2(a, b)>> \in tailgating_flagged

\* a pair flagged in one frame and seen again below the threshold in a later
\* frame that lists the two in the opposite order
C2_Witness ==
    \E i \in 1..Len(distance_records) : \E j \in 1..Len(distance_records) :
        LET r == distance_records[i]
            q == distance_records[j]
        IN /\ r.frame < q.frame
           /\ r.id1 = q.id2 /\ r.id2 = q.id1
           /\ r.distance < tailgating_thresh - 10
           /\ q.distance < tailgating_thresh - 10
           /\ PairKey(r.id1, r.id2) \in tailgating_flagged

-----------------------------------------------------------------------------
(* C3 *)

\* C3: each entity causes at most one increment of the downward counters and
\* at most one of the upward counters, whatever its path across the lines:
\* the per-class downward counts sum to the size of counted_ids_red_to_blue
\* and the per-class upward counts to the size of counted_ids_blue_to_red.
C3_OneIncrementPerDirection ==
    /\ SumValues(count_red_to_blue) = Cardinality(counted_ids_red_to_blue)
    /\ SumValues(count_blue_to_red) = Cardinality(counted_ids_blue_to_red)

\* the frames in which identity t is seen with its center within tol of line
FramesNear(t, line, tol) ==
    { k \in FrameNos :
        t \in VisibleIn(k) /\ InBand(ReportedCenter(k, t)[2], line, tol) }

\* an entity counted downward that was seen in the blue count band in two
\* frames after it had touched the red band
C3_Witness ==
    \E t \in counted_ids_red_to_blue :
        \E r \in FramesNear(t, line_y_red, TouchTol) :
            Cardinality({k \in FramesNear(t, line_y_blue, CountTol) : k > r}) >= 2

-----------------------------------------------------------------------------
(* C4 *)

\* identity t touched the red band in a frame before every frame in which it
\* touched the blue band
TouchedRedFirst(t) ==
    \E r \in FramesNear(t, line_y_red, TouchTol) :
        \A b \in FramesNear(t, line_y_blue, TouchTol) : r < b

\* identity t touched the blue band in a frame before every frame in which
\* it touched the red band
TouchedBlueFirst(t) ==
    \E b \in FramesNear(t, line_y_blue, TouchTol) :
        \A r \in FramesNear(t, line_y_red, TouchTol) : b < r

\* C4 as stated: the downward counts sum to at most the number of entities
\* that touched the red band before the blue band, and the upward counts to
\* at most the number that touched the blue band before the red band.
C4_AsStated ==
    /\ SumValues(count_red_to_blue)
          <= Cardinality({t \in AllIds : TouchedRedFirst(t)})
    /\ SumValues(count_blue_to_red)
          <= Cardinality({t \in AllIds : TouchedBlueFirst(t)})

\* C4 (amended): the downward counts sum to at most the number of entities
\* that ever touched the red band, and the upward counts to at most the
\* number that ever touched the blue band, whichever band they touched first.
C4_CountsBoundedByTouches ==
    /\ SumValues(count_red_to_blue)
          <= Cardinality({t \in AllIds : FramesNear(t, line_y_red, TouchTol) # {}})
    /\ SumValues(count_blue_to_red)
          <= Cardinality({t \in AllIds : FramesNear(t, line_y_blue, TouchTol) # {}})

\* an entity counted downward although the first band it touched was the blue
\* one
C4_Witness ==
    \E t \in counted_ids_red_to_blue :
        TouchedBlueFirst(t) /\ SumValues(count_red_to_blue) >= 1

-----------------------------------------------------------------------------
(* C5 *)

\* C5: the frame in which an entity is first observed assigns it speed 0
\* whatever its bounding box, and does not raise a braking flag for it.
C5_FirstSightingSpeedZero ==
    [][\A t \in (DOMAIN prev_speeds') \ (DOMAIN prev_speeds) :
          /\ prev_speeds'[t] = 0
          /\ t \notin braking_flagged'
          /\ (ReportedSpeed(frame_no, t))' = 0
          /\ (BrakingEntries(frame_no, t))' = {}]_vars

\* an entity first observed in a frame after the first, away from the place
\* where another entity was observed before
C5_Witness ==
    \E t \in AllIds : \E u \in AllIds :
        /\ t # u
        /\ frame_no >= 2
        /\ t \in VisibleIn(frame_no)
        /\ \A k \in 1..(frame_no - 1) : t \notin VisibleIn(k)
        /\ prev_positions[t] # prev_positions[u]
        /\ prev_speeds[t] = 0

-----------------------------------------------------------------------------
(* C6 *)

\* the records of the log tagged with frame k
RecordsOf(k) ==
    { i \in 1..Len(distance_records) : distance_records[i].frame = k }

\* C6: the distance log is append-only and complete: a frame with n visible
\* entities appends exactly n(n-1)/2 records, one per unordered pair of
\* entities visible in it and tagged with its frame number, whatever the
\* distance and whether or not the pair is already flagged; the records of
\* earlier frames are left as they are.
C6_DistanceLogAppendOnly ==
    [][/\ Len(distance_records') >= Len(distance_records)
       /\ SubSeq(distance_records', 1, Len(distance_records)) = distance_records
       /\ frame_no' = frame_no + 1 =>
            LET V == (VisibleIn(frame_no))'
                n == Cardinality(V)
                new == (Len(distance_records) + 1)..Len(distance_records')
            IN /\ 2 * Cardinality(new) = n * (n - 1)
               /\ \A i \in new : distance_records'[i].frame = frame_no'
               /\ \A a \in V : \A b \in V :
                    a < b =>
                      Cardinality({ i \in new :
                          {distance_records'[i].id1, distance_records'[i].id2}
                             = {a, b} }) = 1]_vars

\* a frame with three visible entities, one pair of them flagged in an
\* earlier frame and one pair of them not below the threshold, that added
\* three records
C6_Witness ==
    /\ frame_no >= 2
    /\ Cardinality(VisibleIn(frame_no)) = 3
    /\ Cardinality(RecordsOf(frame_no)) = 3
    /\ \E i \in RecordsOf(frame_no) :
          distance_records[i].distance >= tailgating_thresh + 10
    /\ \E i \in RecordsOf(frame_no) : \E k \in 1..(frame_no - 1) :
          TailgatingEvents(distance_records[i].id1, distance_records[i].id2)
             \cap ({k} \X TailgatingEntries(k)) # {}

-----------------------------------------------------------------------------
(* C7 *)

\* the frames in which a and b are both visible
CoVisible(a, b) ==
    { k \in FrameNos : a \in VisibleIn(k) /\ b \in VisibleIn(k) }

\* the metric distance of a and b in frame k, from the reported centers
MetricDistance(k, a, b) ==
    LET ca == ReportedCenter(k, a)
        cb == ReportedCenter(k, b)
    IN ScaledDist(ca[1] - cb[1], ca[2] - cb[2], pixel_to_meter)

\* the frames in which a and b are both visible and strictly closer than
\* tailgating_thresh
CloseFrames(a, b) ==
    { k \in CoVisible(a, b) : MetricDistance(k, a, b) < tailgating_thresh }

\* C7: a pair is tailgating-flagged in exactly the first frame in which both
\* are visible at a metric distance strictly below tailgating_thresh; every
\* frame in which the pair is visible adds a distance record, but no later
\* frame adds a second tailgating record; a pair never seen below the
\* threshold is never flagged.
C7_FlaggedAtFirstCloseFrame ==
    \A a \in AllIds : \A b \in AllIds :
        a < b =>
            /\ \A k \in CoVisible(a, b) :
                  \E i \in RecordsOf(k) :
                      {distance_records[i].id1, distance_records[i].id2} = {a, b}
            /\ IF CloseFrames(a, b) = {}
               THEN /\ TailgatingEvents(a, b) = {}
                    /\ <<a, b>> \notin tailgating_flagged
               ELSE /\ <<a, b>> \in tailgating_flagged
                    /\ Cardinality(TailgatingEvents(a, b)) = 1
                    /\ \A e \in TailgatingEvents(a, b) :
                          /\ e[1] \in CloseFrames(a, b)
                          /\ \A k \in CloseFrames(a, b) : e[1] <= k
                          /\ frame_data[e[1]].objects[e[2]].tailgating_pair
                                = <<a, b>>

\* one pair flagged in a frame and seen closer still in a later frame, and
\* another pair seen at the threshold first and flagged only in a later frame
C7_Witness ==
    /\ \E a \in AllIds : \E b \in AllIds :
          \E k \in CloseFrames(a, b) : \E m \in CloseFrames(a, b) :
              /\ a < b /\ k < m
              /\ MetricDistance(m, a, b) < MetricDistance(k, a, b)
              /\ Cardinality(TailgatingEvents(a, b)) = 1
    /\ \E a \in AllIds : \E b \in AllIds :
          \E k \in CoVisible(a, b) : \E m \in CloseFrames(a, b) :
              /\ a < b /\ k < m
              /\ MetricDistance(k, a, b) = tailgating_thresh
              /\ \A e \in TailgatingEvents(a, b) : e[1] = m

-----------------------------------------------------------------------------
(* C8 *)

\* the class label reported for identity t in frame k (t visible in k)
ReportedClass(k, t) ==
    LET i == CHOOSE j \in TrackEntries(k) : frame_data[k].objects[j].id = t
    IN frame_data[k].objects[i].class

\* the frames in which t is in the count band of line `to`, having touched
\* the band of line `from` in that frame or an earlier one
CrossingFrames(t, from, to) ==
    { k \in FramesNear(t, to, CountTol) :
        \E r \in FramesNear(t, from, TouchTol) : r <= k }

\* the number of identities whose first crossing frame from `from` to `to`
\* reports class c
FirstCrossingsOfClass(c, from, to) ==
    Cardinality({ t \in AllIds :
        /\ CrossingFrames(t, from, to) # {}
        /\ \E k \in CrossingFrames(t, from, to) :
              /\ \A m \in CrossingFrames(t, from, to) : k <= m
              /\ ReportedClass(k, t) = c })

\* d.get(c, 0)
CountOf(d, c) == IF c \in DOMAIN d THEN d[c] ELSE 0

ClassLabels == { vehicles_seen[t] : t \in AllIds }
                  \cup DOMAIN count_red_to_blue \cup DOMAIN count_blue_to_red

\* C8: an entity that touches the red band and then enters the blue count
\* band gets exactly one downward increment, for the class it has in that
\* frame; an entity is counted upward only if it touched the blue band
\* before; the two directions do not depend on each other, so an entity can
\* be counted once in each.
C8_DirectionsIndependent ==
    /\ counted_ids_red_to_blue =
          { t \in AllIds : CrossingFrames(t, line_y_red, line_y_blue) # {} }
    /\ counted_ids_blue_to_red =
          { t \in AllIds : CrossingFrames(t, line_y_blue, line_y_red) # {} }
    /\ \A c \in ClassLabels :
          /\ CountOf(count_red_to_blue, c)
                = FirstCrossingsOfClass(c, line_y_red, line_y_blue)
          /\ CountOf(count_blue_to_red, c)
                = FirstCrossingsOfClass(c, line_y_blue, line_y_red)

\* an entity counted once in each direction, under two different classes
C8_Witness ==
    \E t \in counted_ids_red_to_blue \cap counted_ids_blue_to_red :
        /\ SumValues(count_red_to_blue) = 1
        /\ SumValues(count_blue_to_red) = 1
        /\ DOMAIN count_red_to_blue # DOMAIN count_blue_to_red

-----------------------------------------------------------------------------
(* C9 *)

\* the frames with at least 3 visible entities
PlatoonFrames == { k \in FrameNos : Cardinality(VisibleIn(k)) >= 3 }

\* the arithmetic mean of the current speeds of the identities V
MeanCurrentSpeed(V) ==
    SumValues([t \in V |-> prev_speeds[t]]) \div Cardinality(V)

\* a frame step appends the mean of the current speeds of the visible
\* entities when at least 3 are visible, and nothing otherwise; no other
\* step changes the samples
PlatoonSampleRule ==
    platoon_speeds' =
        IF frame_no' = frame_no + 1 /\ Cardinality((VisibleIn(frame_no))') >= 3
        THEN Append(platoon_speeds, (MeanCurrentSpeed(VisibleIn(frame_no)))')
        ELSE platoon_speeds

\* the report's platoon_frames is the number of frames with at least 3
\* visible entities
PlatoonFramesReported ==
    /\ Len(platoon_speeds) = Cardinality(PlatoonFrames)
    /\ pc = "done" =>
          summary.speed_analysis.platoon_frames = Cardinality(PlatoonFrames)

\* C9 as stated: a sample is appended exactly for the frames with at least 3
\* visible entities and is the mean of their current speeds; platoon_frames
\* counts those frames; the reported average platoon speed is the mean of the
\* samples, or 0 when there are none.
C9_AsStated ==
    /\ [][PlatoonSampleRule]_vars
    /\ [](/\ PlatoonFramesReported
          /\ pc = "done" =>
                summary.speed_analysis.avg_platoon_speed_kmh =
                    IF platoon_speeds = <<>> THEN 0
                    ELSE SumSeq(platoon_speeds) \div Len(platoon_speeds))

\* C9 (amended): as stated, except that the reported average platoon speed is
\* the mean of the samples rounded to two decimals, or 0 when there are none.
C9_PlatoonSamples ==
    /\ [][PlatoonSampleRule]_vars
    /\ [](/\ PlatoonFramesReported
          /\ pc = "done" =>
                summary.speed_analysis.avg_platoon_speed_kmh =
                    IF platoon_speeds = <<>> THEN 0
                    ELSE Round2(SumSeq(platoon_speeds) \div Len(platoon_speeds)))

\* a finished run with a frame of 2 visible entities (no sample) and a frame
\* of 3, some of them moving, whose reported average differs from the
\* unrounded mean of the samples
C9_Witness ==
    /\ pc = "done"
    /\ \E k \in FrameNos : Cardinality(VisibleIn(k)) = 2
    /\ summary.speed_analysis.platoon_frames = 1
    /\ \E k \in PlatoonFrames : \E t \in VisibleIn(k) : ReportedSpeed(k, t) > 0
    /\ summary.speed_analysis.avg_platoon_speed_kmh
          # SumSeq(platoon_speeds) \div Len(platoon_speeds)

-----------------------------------------------------------------------------
(* C10 *)

\* a non-positive pixel_to_meter, or line_y_blue <= line_y_red
InvalidConfig == pixel_to_meter <= 0 \/ line_y_blue <= line_y_red

\* C10: a run with an invalid configuration is rejected before any frame is
\* processed: no frame is read, no per-run state is mutated and no report is
\* emitted.
C10_InvalidConfigRejected ==
    InvalidConfig =>
        /\ frame_no = 0
        /\ frame_data = <<>>
        /\ vehicles_seen = EmptyDict
        /\ prev_positions = EmptyDict
        /\ distance_records = <<>>
        /\ summary = NoSummary

-----------------------------------------------------------------------------
(* C11 *)

\* the detections of obs on which the loop body does not raise
WellFormedPart(obs) == SelectSeq(obs, LAMBDA o : ~Raises(o))

\* C11: a frame with a malformed observation is applied as the same frame
\* without that observation (the remaining observations take effect as in a
\* frame that never held it) and the run goes on to the next frame.
C11_MalformedSkipped ==
    [][\A obs \in MalformedFrames :
          ReadFrameRaises(obs) =>
              /\ pc' = "loop"
              /\ Len(frame_data') = frame_no'
              /\ prev_positions' = RunReadFrame(MainRun, WellFormedPart(obs)).prev_positions
              /\ vehicles_seen' = RunReadFrame(MainRun, WellFormedPart(obs)).vehicles_seen
              /\ distance_records' = RunReadFrame(MainRun, WellFormedPart(obs)).distance_records]_vars

-----------------------------------------------------------------------------
(* C12 *)

\* C12: the report of a run whose stream failed is not the report that a
\* complete run over the same frames returns (it carries a mark that tells
\* it apart).  No statement of the function handles a cancellation: a call
\* can only be interrupted by an exception, which returns no report.
C12_FailedRunDistinguishable ==
    (pc = "done" /\ cap = "failed" /\ frame_no >= 1) =>
        summary # BuildSummary

-----------------------------------------------------------------------------
(* C13 *)

\* the detections that the frames of the history fd were read from
InputsOf(fd) ==
    [k \in 1..Len(fd) |->
        LET tracked == SelectSeq(fd[k].objects, LAMBDA o : "id" \in DOMAIN o)
        IN [i \in 1..Len(tracked) |->
               [ id |-> tracked[i].id, box |-> tracked[i].bbox,
                 cls |-> tracked[i].class ]]]

RECURSIVE AloneOver(_)
\* the state of a run that reads the frames `inputs` with no other run beside it
AloneOver(inputs) ==
    IF inputs = <<>> THEN RunInit
    ELSE RunReadFrame(AloneOver(SubSeq(inputs, 1, Len(inputs) - 1)),
                      inputs[Len(inputs)])

\* the run rs is in the state, and has the report, of a run that reads the
\* same frames alone
AsAlone(rs) ==
    LET alone == AloneOver(InputsOf(rs.frame_data))
    IN IF rs.pc = "done" THEN rs = RunEndOfStream(alone)
       ELSE rs.pc = "loop" /\ rs = alone

\* C13: under every interleaving of the frame steps of two runs, the flag
\* sets, counters, entity store, distance log and report of each run are
\* those of the same run executed alone, and the reports are combined only
\* after both runs have returned.
C13_RunsDisjoint ==
    /\ AsAlone(MainRun)
    /\ AsAlone(other_run)
    /\ response # NoResponse =>
          /\ pc = "done" /\ other_run.pc = "done"
          /\ response.intersection_summary.violations.hard_brakes =
                Cardinality(braking_flagged)
                + Cardinality(other_run.braking_flagged)
          /\ response.intersection_summary.violations.tailgating =
                Cardinality(tailgating_flagged)
                + Cardinality(other_run.tailgating_flagged)

\* both runs have read two frames and returned, one of them with a
\* tailgating pair and no crossing, the other with a crossing and no pair,
\* and their reports are combined
C13_Witness ==
    /\ response # NoResponse
    /\ frame_no = 2 /\ other_run.frame_no = 2
    /\ tailgating_flagged # {} /\ counted_ids_red_to_blue = {}
    /\ other_run.tailgating_flagged = {}
    /\ other_run.counted_ids_red_to_blue # {}
    /\ response.intersection_summary.violations.tailgating = 1

-----------------------------------------------------------------------------
(* C14 *)

\* the identities visible in some frame of the run
SeenIds == UNION { VisibleIn(k) : k \in FrameNos }

\* the last frame in which identity t is visible (t in SeenIds)
LastSeen(t) ==
    CHOOSE k \in FrameNos :
        t \in VisibleIn(k) /\ \A m \in FrameNos : t \in VisibleIn(m) => m <= k

\* the class label of identity t in the last frame that shows it
LastClass(t) == ReportedClass(LastSeen(t), t)

\* the report's counts are those of the final state
ReportOfFinalState ==
    LET uv == summary.vehicle_counts.unique_vehicles
        dc == summary.vehicle_counts.directional_counts
        classes == (DOMAIN uv) \ {"total_unique_vehicles"}
    IN /\ summary.video_info.total_frames = Len(frame_data)
       /\ frame_no = Len(frame_data)
       /\ uv["total_unique_vehicles"] = Cardinality(SeenIds)
       /\ uv["total_unique_vehicles"] = SumValues([c \in classes |-> uv[c]])
       /\ classes = { LastClass(t) : t \in SeenIds }
       /\ \A c \in classes :
             uv[c] = Cardinality({ t \in SeenIds : LastClass(t) = c })
       /\ summary.violations.hard_braking_count = Cardinality(braking_flagged)
       /\ summary.violations.tailgating_count = Cardinality(tailgating_flagged)
       /\ dc.downward = count_red_to_blue
       /\ dc.upward = count_blue_to_red
       /\ dc.total_downward = SumValues(count_red_to_blue)
       /\ dc.total_upward = SumValues(count_blue_to_red)
       /\ summary.distance_analysis.total_distance_records
             = Len(distance_records)

\* C14: the report returned at the end of the stream has total_frames = the
\* number of frames read, total_unique_vehicles = the number of distinct ids
\* observed = the sum of the per-class unique counts (each entity under its
\* last observed class), the braking and tailgating counts = the sizes of
\* the flag sets, total_downward and total_upward = the sums of the
\* per-class directional counts and total_distance_records = the length of
\* the distance log; the step that builds it changes no accumulator.
C14_ReportReflectsFinalState ==
    /\ [](pc = "done" => ReportOfFinalState)
    /\ [][pc' = "done" => UNCHANGED accumulators]_vars

\* a finished run with two entities, one of them seen under two class
\* labels, a braking flag, a tailgating pair, a downward count and a
\* distance record
C14_Witness ==
    /\ pc = "done"
    /\ Cardinality(SeenIds) = 2
    /\ \E t \in SeenIds : \E k \in FrameNos :
          t \in VisibleIn(k) /\ ReportedClass(k, t) # LastClass(t)
    /\ summary.violations.hard_braking_count >= 1
    /\ summary.violations.tailgating_count >= 1
    /\ summary.vehicle_counts.directional_counts.total_downward >= 1
    /\ summary.distance_analysis.total_distance_records >= 1

-----------------------------------------------------------------------------
(* C19 *)

\* the speed of an entity whose last observation was at center p and that is
\* now at center c
SpeedBetween(p, c) ==
    (ScaledDist(c[1] - p[1], c[2] - p[2], pixel_to_meter) * fps
        * KmhPerMpsTenths) \div 10

\* C19: the entity store is overwrite-on-observe with no eviction: a frame
\* step stores, for every entity it shows, the center and class of that
\* observation and the speed computed against the center of the entity's
\* last observation, however many frames ago (0 for a new entity); it leaves
\* the entry of every entity it does not show as it is; no step removes an
\* entry.
C19_StoreOverwriteNoEviction ==
    [][/\ DOMAIN prev_positions \subseteq DOMAIN prev_positions'
       /\ DOMAIN prev_speeds \subseteq DOMAIN prev_speeds'
       /\ DOMAIN vehicles_seen \subseteq DOMAIN vehicles_seen'
       /\ frame_no' = frame_no =>
             UNCHANGED <<prev_positions, prev_speeds, vehicles_seen>>
       /\ (frame_no' = frame_no + 1 /\ pc' = "loop") =>
             LET V == (VisibleIn(frame_no))'
             IN /\ DOMAIN prev_positions' = (DOMAIN prev_positions) \cup V
                /\ DOMAIN prev_speeds' = DOMAIN prev_positions'
                /\ DOMAIN vehicles_seen' = DOMAIN prev_positions'
                /\ \A t \in V :
                      /\ prev_positions'[t] = (ReportedCenter(frame_no, t))'
                      /\ vehicles_seen'[t] = (ReportedClass(frame_no, t))'
                      /\ prev_speeds'[t] =
                            IF t \in SeenIds
                            THEN SpeedBetween(
                                    ReportedCenter(LastSeen(t), t),
                                    (ReportedCenter(frame_no, t))')
                            ELSE 0
                /\ \A t \in (DOMAIN prev_positions) \ V :
                      /\ prev_positions'[t] = prev_positions[t]
                      /\ prev_speeds'[t] = prev_speeds[t]
                      /\ vehicles_seen'[t] = vehicles_seen[t]]_vars

\* an entity that was seen, then was absent from a frame that showed another
\* entity, and then reappeared elsewhere under another class label
C19_Witness ==
    /\ frame_no = 3
    /\ \E t \in VisibleIn(1) \cap VisibleIn(3) :
          /\ t \notin VisibleIn(2)
          /\ VisibleIn(2) # {}
          /\ ReportedCenter(1, t) # ReportedCenter(3, t)
          /\ ReportedClass(1, t) # ReportedClass(3, t)
          /\ prev_speeds[t] > 0
          /\ prev_positions[t] = ReportedCenter(3, t)

-----------------------------------------------------------------------------
(* C15 *)

\* the squared pixel distance of the two entities of record r, from the
\* centers reported for them in the frame of r
PixelDist2(r) ==
    LET c1 == ReportedCenter(r.frame, r.id1)
        c2 == ReportedCenter(r.frame, r.id2)
    IN (c1[1] - c2[1]) * (c1[1] - c2[1]) + (c1[2] - c2[2]) * (c1[2] - c2[2])

\* the square of d * k in thousandths, d the pixel distance of record r
MetricDist2(r) == PixelDist2(r) * pixel_to_meter * pixel_to_meter

\* the records of one pair at one pixel distance store one distance,
\* whatever the frame, the order of the two and their speeds
SameDistanceStored ==
    \A i \in 1..Len(distance_records) : \A j \in 1..Len(distance_records) :
        LET r == distance_records[i]
            q == distance_records[j]
        IN ({r.id1, r.id2} = {q.id1, q.id2} /\ PixelDist2(r) = PixelDist2(q))
              => r.distance = q.distance

\* C15 as stated: the distance stored in every record is d * k (to the
\* thousandth of a metre), identical in every frame at the same pixel
\* distance and independent of speeds, order and earlier frames.
C15_AsStated ==
    /\ \A i \in 1..Len(distance_records) :
          LET r == distance_records[i]
          IN /\ r.distance * r.distance <= MetricDist2(r)
             /\ MetricDist2(r) < (r.distance + 1) * (r.distance + 1)
    /\ SameDistanceStored

\* C15 (amended): the distance stored in every record is d * k rounded to
\* two decimals (a whole number of centimetres at most half a centimetre
\* from d * k), identical in every frame at the same pixel distance and
\* independent of speeds, order and earlier frames.
C15_DistanceStoredRounded ==
    /\ \A i \in 1..Len(distance_records) :
          LET r == distance_records[i]
          IN /\ r.distance % 10 = 0
             /\ r.distance >= 10 =>
                   (r.distance - 5) * (r.distance - 5) <= MetricDist2(r)
             /\ MetricDist2(r) < (r.distance + 5) * (r.distance + 5)
    /\ SameDistanceStored

\* a pair recorded in two frames at one pixel distance, listed in opposite
\* orders and with different speeds, and a record whose stored distance is
\* not d * k to the thousandth
C15_Witness ==
    /\ \E i \in 1..Len(distance_records) : \E j \in 1..Len(distance_records) :
          LET r == distance_records[i]
              q == distance_records[j]
          IN /\ r.frame < q.frame
             /\ r.id1 = q.id2 /\ r.id2 = q.id1
             /\ PixelDist2(r) = PixelDist2(q)
             /\ r.speed1 # q.speed2
             /\ r.distance = q.distance
    /\ \E i \in 1..Len(distance_records) :
          LET r == distance_records[i]
          IN MetricDist2(r) >= (r.distance + 1) * (r.distance + 1)
             \/ MetricDist2(r) < r.distance * r.distance

-----------------------------------------------------------------------------
(* C16 *)

\* c is the integer midpoint of box
IsMidpoint(c, box) ==
    /\ 2 * c[1] <= box[1] + box[3] /\ box[1] + box[3] <= 2 * c[1] + 1
    /\ 2 * c[2] <= box[2] + box[4] /\ box[2] + box[4] <= 2 * c[2] + 1

\* v (thousandths of a km/h) is displacement * pixel_to_meter * fps * 3.6 for
\* the displacement from center p to center c: v = x * fps * 3.6 for the
\* metric displacement x, in thousandths, whose square is that of |c - p| * k
IsSpeedOver(v, p, c) ==
    LET d2 == (c[1] - p[1]) * (c[1] - p[1]) + (c[2] - p[2]) * (c[2] - p[2])
        m2 == d2 * pixel_to_meter * pixel_to_meter
        x0 == (v * 10) \div (fps * KmhPerMpsTenths)
    IN \E x \in {x0, x0 + 1} :
          /\ x * x <= m2 /\ m2 < (x + 1) * (x + 1)
          /\ v = (x * fps * KmhPerMpsTenths) \div 10

\* C16: an entity observed in two consecutive frames is assigned, at the
\* second, the speed (Euclidean pixel displacement between the two centers)
\* * pixel_to_meter * fps * 3.6 km/h, a center being the integer midpoint of
\* the bounding box; centers (100,100) then (100,110) with fps = 10 and
\* k = 0.05 give 18.0 km/h.
C16_SpeedFromDisplacement ==
    [][(frame_no' = frame_no + 1 /\ pc' = "loop" /\ frame_no >= 1) =>
          \A t \in (VisibleIn(frame_no))' \cap VisibleIn(frame_no) :
              LET p == ReportedCenter(frame_no, t)
                  c == (ReportedCenter(frame_no, t))'
              IN /\ IsMidpoint(c, (ReportedBox(frame_no, t))')
                 /\ IsSpeedOver(prev_speeds'[t], p, c)
                 /\ (ReportedSpeed(frame_no, t))' = Round2(prev_speeds'[t])
                 /\ (p = <<100, 100>> /\ c = <<100, 110>> /\ fps = 10
                       /\ pixel_to_meter = 50) => prev_speeds'[t] = 18000]_vars

\* an entity seen at (100,100) and in the next frame at (100,110), its box
\* of odd height, with speed 18.0 km/h
C16_Witness ==
    /\ frame_no >= 2
    /\ \E t \in VisibleIn(frame_no) \cap VisibleIn(frame_no - 1) :
          /\ ReportedCenter(frame_no - 1, t) = <<100, 100>>
          /\ ReportedCenter(frame_no, t) = <<100, 110>>
          /\ (ReportedBox(frame_no, t)[2] + ReportedBox(frame_no, t)[4]) % 2 = 1
          /\ prev_speeds[t] = 18000

-----------------------------------------------------------------------------
(* C17 *)

\* the frames that show identity t
ObservedFrames(t) == { k \in FrameNos : t \in VisibleIn(k) }

\* the last frame before k that shows identity t, or 0
PreviousObservation(t, k) ==
    IF \E m \in ObservedFrames(t) : m < k
    THEN CHOOSE m \in ObservedFrames(t) :
            m < k /\ \A n \in ObservedFrames(t) : n < k => n <= m
    ELSE 0

\* the speed computed for identity t at its observation in frame k
SpeedAt(t, k) ==
    IF PreviousObservation(t, k) = 0 THEN 0
    ELSE SpeedBetween(ReportedCenter(PreviousObservation(t, k), t),
                      ReportedCenter(k, t))

\* the speed drop of identity t at its observation in frame k: the speed
\* stored at its previous observation minus the speed computed at this one
SpeedDrop(t, k) == SpeedAt(t, PreviousObservation(t, k)) - SpeedAt(t, k)

\* the observations of t, after its first, whose drop is above the threshold
DropFrames(t) ==
    { k \in ObservedFrames(t) :
        PreviousObservation(t, k) # 0 /\ SpeedDrop(t, k) > braking_thresh }

\* C17: an entity is in braking_flagged exactly when, at one of its
\* observations so far, the speed stored at its previous observation minus
\* the speed computed at this one was strictly above braking_thresh; a drop
\* equal to the threshold, a rise, or a drop of another entity's speed does
\* not flag it.
C17_FlaggedIffDropAboveThreshold ==
    braking_flagged = { t \in SeenIds : DropFrames(t) # {} }

\* an entity that is not flagged after its speed rose and then dropped by
\* exactly the threshold, in frames that also show another entity whose
\* speed dropped by more and that is flagged
C17_Witness ==
    \E t \in SeenIds \ braking_flagged : \E u \in braking_flagged :
        \E k \in ObservedFrames(t) \cap DropFrames(u) :
            /\ PreviousObservation(t, k) # 0
            /\ SpeedDrop(t, k) = braking_thresh
            /\ SpeedDrop(t, PreviousObservation(t, k)) < 0

-----------------------------------------------------------------------------
(* C18 *)

\* the touch marks of one line after a frame step: those before it and the
\* entities the frame shows within 3 px of the line, each marked True
TouchMarksRule(marks, line) ==
    /\ DOMAIN marks' =
          (DOMAIN marks)
             \cup { t \in (VisibleIn(frame_no))' :
                       InBand((ReportedCenter(frame_no, t))'[2], line, TouchTol) }
    /\ \A t \in DOMAIN marks' : marks'[t] = TRUE

\* the counting of one direction in a frame step: an entity of the frame is
\* counted when it is marked after the step, was not counted before it and
\* is within 5 px of the far line; its class of this frame is incremented
\* and it joins the counted set
CountingRule(marks, counted, counts, far) ==
    LET V == (VisibleIn(frame_no))'
        now == { t \in V :
                   /\ t \in DOMAIN marks'
                   /\ t \notin counted
                   /\ InBand((ReportedCenter(frame_no, t))'[2], far, CountTol) }
    IN /\ counted' = counted \cup now
       /\ \A c \in ClassLabels' :
             CountOf(counts', c) =
                CountOf(counts, c)
                + Cardinality({ t \in now : (ReportedClass(frame_no, t))' = c })

\* C18: a frame step increments the downward counter for an entity exactly
\* when, after the touch marks of the frame are set, the entity is marked
\* touched-red, is not yet counted downward and is within 5 px of
\* line_y_blue; the class incremented is the entity's class in that frame
\* and the entity stays counted; touch marks are set for centers within
\* 3 px of the line and never cleared; the upward rule is the mirror image.
C18_CountingRule ==
    /\ [][IF frame_no' = frame_no + 1 /\ pc' = "loop"
          THEN /\ TouchMarksRule(crossed_red_first, line_y_red)
               /\ TouchMarksRule(crossed_blue_first, line_y_blue)
               /\ CountingRule(crossed_red_first, counted_ids_red_to_blue,
                               count_red_to_blue, line_y_blue)
               /\ CountingRule(crossed_blue_first, counted_ids_blue_to_red,
                               count_blue_to_red, line_y_red)
          ELSE UNCHANGED <<crossed_red_first, crossed_blue_first,
                           counted_ids_red_to_blue, counted_ids_blue_to_red,
                           count_red_to_blue, count_blue_to_red>>]_vars
    /\ [](/\ DOMAIN crossed_red_first =
                { t \in AllIds : FramesNear(t, line_y_red, TouchTol) # {} }
          /\ DOMAIN crossed_blue_first =
                { t \in AllIds : FramesNear(t, line_y_blue, TouchTol) # {} })

\* an entity counted downward, as a truck, in the frame of its first touch of
\* the red band, after a frame that showed it as a car
C18_Witness ==
    \E t \in counted_ids_red_to_blue : \E k \in FrameNos :
        /\ k >= 2
        /\ \A r \in FramesNear(t, line_y_red, TouchTol) : k <= r
        /\ k \in FramesNear(t, line_y_red, TouchTol)
        /\ k \in FramesNear(t, line_y_blue, CountTol)
        /\ ReportedClass(1, t) = "car"
        /\ ReportedClass(k, t) = "truck"
        /\ CountOf(count_red_to_blue, "truck") = 1
        /\ CountOf(count_red_to_blue, "car") = 0

-----------------------------------------------------------------------------
(* C20 *)

\* no frame step counts one entity in both directions
NeverBothInOneStep ==
    \A t \in counted_ids_red_to_blue' \cap counted_ids_blue_to_red' :
        t \in counted_ids_red_to_blue \/ t \in counted_ids_blue_to_red

\* an entity counted in both directions was seen in two different frames,
\* one within 3 px of each line
CountedBothSeenTwice ==
    \A t \in counted_ids_red_to_blue \cap counted_ids_blue_to_red :
        \E k \in FramesNear(t, line_y_red, TouchTol) :
            \E n \in FramesNear(t, line_y_blue, TouchTol) : k # n

\* C20 as stated: whenever line_y_blue > line_y_red, no observation
\* increments both the downward and the upward counter, and an entity
\* counted in both directions was observed in two different frames, one near
\* each line.
C20_AsStated ==
    /\ [][line_y_blue > line_y_red => NeverBothInOneStep]_vars
    /\ [](line_y_blue > line_y_red => CountedBothSeenTwice)

\* C20 (amended): whenever line_y_blue - line_y_red > 8 (no touch band meets
\* the count band of the other line), no observation increments both
\* counters, and an entity counted in both directions was observed in two
\* different frames, one near each line.
C20_NeverBothWhenLinesApart ==
    /\ [][line_y_blue - line_y_red > CountTol + TouchTol
            => NeverBothInOneStep]_vars
    /\ [](line_y_blue - line_y_red > CountTol + TouchTol
            => CountedBothSeenTwice)

\* lines 9 px apart: an entity counted downward in one frame and upward in a
\* later frame, in which it is inside both count bands
C20_Witness ==
    /\ line_y_blue - line_y_red = CountTol + TouchTol + 1
    /\ \E t \in counted_ids_red_to_blue \cap counted_ids_blue_to_red :
          /\ t \in VisibleIn(frame_no)
          /\ InBand(ReportedCenter(frame_no, t)[2], line_y_red, CountTol)
          /\ InBand(ReportedCenter(frame_no, t)[2], line_y_blue, CountTol)

-----------------------------------------------------------------------------
(* C21 *)

\* the records of the flagging frame of pair {a, b} that hold the pair with a
\* stored distance below tailgating_thresh
CloseRecordsAtFlagging(a, b) ==
    { i \in 1..Len(distance_records) :
        /\ {distance_records[i].id1, distance_records[i].id2} = {a, b}
        /\ distance_records[i].distance < tailgating_thresh
        /\ \E e \in TailgatingEvents(a, b) : distance_records[i].frame = e[1] }

\* C21: in the final report close_proximity_count is at least
\* tailgating_count: every tailgating-flagged pair has at least one distance
\* record, from the frame in which it was flagged, whose stored distance is
\* below tailgating_thresh.
C21_CloseAtLeastTailgating ==
    pc = "done" =>
        /\ summary.distance_analysis.close_proximity_count
              >= summary.violations.tailgating_count
        /\ \A p \in tailgating_flagged :
              CloseRecordsAtFlagging(p[1], p[2]) # {}

-----------------------------------------------------------------------------
(* C22 *)

\* the distinct ids observed by the two runs, in the order of the calls
IdsObserved == << DOMAIN vehicles_seen, DOMAIN other_run.vehicles_seen >>

\* C22: the total_vehicles value that calculate_signal_metrics derives from
\* a run's report and passes as the queue length to the green-time
\* computation equals the number of distinct entity ids observed in that run
\* (the report's total_unique_vehicles), and the intersection-wide
\* total_vehicles equals the sum of the signals' distinct-entity counts.
C22_TotalVehiclesIsIdCount ==
    response # NoResponse =>
        /\ \A i \in DOMAIN response.signals :
              LET sig == response.signals[i]
                  uv == sig.summary.vehicle_counts.unique_vehicles
              IN /\ sig.metrics.total_vehicles = Cardinality(IdsObserved[i])
                 /\ sig.metrics.total_vehicles = uv["total_unique_vehicles"]
                 /\ sig.metrics.green_time.total_rows
                       = TotalRows(Cardinality(IdsObserved[i]), DefaultLanes)
        /\ response.intersection_summary.total_vehicles
              = SumSeq([i \in DOMAIN IdsObserved |->
                           Cardinality(IdsObserved[i])])

====
